---- MODULE Spec2Model ----
(***************************************************************************)
(* Model of MgtTeamsChannelPicker                                          *)
(* (packages/mgt-components/.../mgt-teams-channel-picker.ts): the tree     *)
(* builder, the focus-list flattener, the selection model and the          *)
(* input/focus handlers.                                                   *)
(*                                                                         *)
(* Strings are sequences of one-character strings.  A JavaScript object    *)
(* reference to a tree node is a path into the tree that holds the node,   *)
(* together with a flag telling whether that tree is still the current     *)
(* _treeViewState (every rebuild allocates fresh node objects).            *)
(***************************************************************************)
EXTENDS Integers, Sequences, FiniteSets, TLC

VARIABLES
  items,              \* _items: [defined, value]; undefined until the first load
  inputValue,         \* _inputValue
  isFocused,          \* _isFocused
  selectedItemState,  \* _selectedItemState: a node reference, or NoSelection
  treeViewState,      \* _treeViewState
  focusList,          \* _focusList: references (paths) to nodes of treeViewState
  focusedIndex,       \* _focusedIndex (0-based, -1 for none)
  isDropdownVisible,  \* _isDropdownVisible
  isLoadingState,     \* isLoadingState of the base component
  loadsInFlight,      \* the calls of loadState that have not returned yet
  timerPending,       \* a call of debouncedSearch is waiting for its delay
  pendingById,        \* channel ids of selectChannelById calls awaiting the load
  fired,              \* selectionChanged payloads dispatched by the last handler
  lastOp              \* the last handler run, its argument and its outcome

vars == << items, inputValue, isFocused, selectedItemState, treeViewState,
           focusList, focusedIndex, isDropdownVisible, isLoadingState,
           loadsInFlight, timerPending, pendingById, fired, lastOp >>

-----------------------------------------------------------------------------
(* Bounds of the model *)

\* the nodes (teams and channels) of a source tree the tree builder is checked on
MaxNodes == 4
\* the calls of selectChannelById that await a load at one time
MaxPending == 1
\* the length of the channel names renderHighlightedText is checked on
MaxNameLen == 3
\* the length of the texts renderHighlightedText is checked on
MaxTextLen == 2

-----------------------------------------------------------------------------
(* Strings *)

\* String.prototype.toLowerCase on the alphabet of the model
LowerChar(c) ==
  CASE c = "A" -> "a"
    [] c = "B" -> "b"
    [] OTHER -> c

toLowerCase(s) == [i \in 1..Len(s) |-> LowerChar(s[i])]

\* String.prototype.slice(from, to) with 0-based, in-range arguments
slice(s, from, to) ==
  IF to <= from THEN <<>> ELSE SubSeq(s, from + 1, IF to > Len(s) THEN Len(s) ELSE to)

\* the 0-based positions at which f occurs in s
Occurrences(s, f) ==
  {i \in 0..(Len(s) - Len(f)) : SubSeq(s, i + 1, i + Len(f)) = f}

\* String.prototype.includes
includes(s, f) == Occurrences(s, f) # {}

\* String.prototype.indexOf
indexOf(s, f) ==
  IF Occurrences(s, f) = {} THEN -1
  ELSE CHOOSE i \in Occurrences(s, f) : \A j \in Occurrences(s, f) : i <= j

\* s.split(sep).pop() for a non-empty separator: what follows the last of the
\* successive non-overlapping occurrences of sep
RECURSIVE splitPop(_, _)
splitPop(s, sep) ==
  IF indexOf(s, sep) = -1 THEN s
  ELSE splitPop(slice(s, indexOf(s, sep) + Len(sep), Len(s)), sep)

-----------------------------------------------------------------------------
(* Data model *)

\* a MicrosoftGraph.Team or MicrosoftGraph.Channel: what the picker reads of it
Item(id, name) == [id |-> id, displayName |-> name]

NoItem == [id |-> 0, displayName |-> <<>>]

\* DropdownItem.  hasChannels is `channels !== undefined`.
TeamItem(it, chs) == [item |-> it, hasChannels |-> TRUE, channels |-> chs]

\* a DropdownItem whose channels member is undefined: every channel (line 694),
\* and a team whose batch response carried no value (line 691)
LeafItem(it) == [item |-> it, hasChannels |-> FALSE, channels |-> <<>>]

\* ChannelPickerItemState.parent: the team node, given by its index in the
\* top-level list of its tree and its item; idx = 0 is null
NullParent == [idx |-> 0, item |-> NoItem]

ParentRef(k, it) == [idx |-> k, item |-> it]

\* ChannelPickerItemState
ItemState(it, parent, hasChannels, chs, isExpanded) ==
  [item |-> it, parent |-> parent, hasChannels |-> hasChannels,
   channels |-> chs, isExpanded |-> isExpanded]

-----------------------------------------------------------------------------
(* Tree builder *)

\* line 771: the node is taken whole
nodeMatches(state, filterString) ==
  Len(filterString) = 0 \/ includes(toLowerCase(state.item.displayName), filterString)

\* the filter is handed down to the channels of a node taken whole
matchedChildFilter_Same(filterString) == filterString

\* line 774: the filter handed to the channels of a node taken whole
matchedChildFilter(filterString) == <<>>

\* a node taken whole is expanded whatever the filter
matchedIsExpanded_Always(filterString) == TRUE

\* line 775
matchedIsExpanded(filterString) == Len(filterString) > 0

\* the length of the filtered channels is not looked at
keptForChannels_Always(channels) == TRUE

\* line 780: a team that does not match is kept for its matching channels
keptForChannels(channels) == Len(channels) > 0

\* a team kept for its channels stays collapsed
keptIsExpanded_Never == FALSE

\* line 783
keptIsExpanded == TRUE

\* String.prototype.trim on the alphabet of the model
RECURSIVE trim(_)
trim(s) ==
  IF s = <<>> THEN s
  ELSE IF Head(s) = " " THEN trim(Tail(s))
  ELSE IF s[Len(s)] = " " THEN trim(SubSeq(s, 1, Len(s) - 1))
  ELSE s

\* the filter is trimmed before it is compared
normalizeFilter_Trim(filterString) == toLowerCase(trim(filterString))

\* line 765
normalizeFilter(filterString) == toLowerCase(filterString)

RECURSIVE generateTreeViewState(_, _, _)
generateTreeViewState(tree, filterString0, parent) ==
  LET filterString == normalizeFilter(filterString0)
      RECURSIVE loop(_, _)
      loop(k, treeView) ==
        IF k > Len(tree) THEN treeView
        ELSE
          LET state == tree[k]
              self == ParentRef(Len(treeView) + 1, state.item)
          IN
            IF nodeMatches(state, filterString) THEN
              loop(k + 1, Append(treeView,
                IF state.hasChannels
                THEN ItemState(state.item, parent, TRUE,
                       generateTreeViewState(state.channels,
                                             matchedChildFilter(filterString), self),
                       matchedIsExpanded(filterString))
                ELSE ItemState(state.item, parent, FALSE, <<>>, FALSE)))
            ELSE IF state.hasChannels THEN
              LET channels == generateTreeViewState(state.channels, filterString, self)
              IN IF keptForChannels(channels)
                 THEN loop(k + 1, Append(treeView,
                        ItemState(state.item, parent, TRUE, channels, keptIsExpanded)))
                 ELSE loop(k + 1, treeView)
            ELSE loop(k + 1, treeView)
  IN loop(1, <<>>)

-----------------------------------------------------------------------------
(* Focus list *)

\* the channels of an item follow it whether it is expanded or not
descends_Always(item) == item.hasChannels

\* line 806: the channels of an item follow it
descends(item) == item.hasChannels /\ item.isExpanded

\* generateFocusList on the list found at path `prefix`; the entries are the
\* paths of the nodes
RECURSIVE focusListFrom(_, _)
focusListFrom(itemList, prefix) ==
  LET RECURSIVE loop(_, _)
      loop(k, array) ==
        IF k > Len(itemList) THEN array
        ELSE
          LET item == itemList[k]
              pushed == Append(array, Append(prefix, k))
          IN loop(k + 1,
                  IF descends(item)
                  THEN pushed \o focusListFrom(item.channels, Append(prefix, k))
                  ELSE pushed)
  IN loop(1, <<>>)

generateFocusList(itemList) == focusListFrom(itemList, <<>>)

\* the node a reference designates
NodeAt(tree, path) ==
  IF Len(path) = 1 THEN tree[path[1]] ELSE tree[path[1]].channels[path[2]]

-----------------------------------------------------------------------------
(* Selection model *)

\* _selectedItemState when no node is selected (null, or undefined before the
\* first selection: the handlers never tell the two apart)
NoSelection ==
  [set |-> FALSE, cur |-> FALSE, path |-> <<>>, item |-> NoItem,
   hasChannels |-> FALSE, parent |-> NullParent]

\* a reference to the node at `path` of the current treeViewState
Ref(tree, path) ==
  [set |-> TRUE, cur |-> TRUE, path |-> path, item |-> NodeAt(tree, path).item,
   hasChannels |-> NodeAt(tree, path).hasChannels,
   parent |-> NodeAt(tree, path).parent]

\* the same reference once its tree has been replaced: it designates no node
\* of the current tree any more
Stale(ref) == IF ref.set THEN [ref EXCEPT !.cur = FALSE, !.path = <<>>] ELSE ref

\* the record of the component's fields a handler works on; thrown tells that
\* the handler was left by an exception
Cur ==
  [items |-> items, inputValue |-> inputValue, isFocused |-> isFocused,
   selectedItemState |-> selectedItemState, treeViewState |-> treeViewState,
   focusList |-> focusList, focusedIndex |-> focusedIndex,
   isDropdownVisible |-> isDropdownVisible, isLoadingState |-> isLoadingState,
   loadsInFlight |-> loadsInFlight,
   timerPending |-> timerPending, pendingById |-> pendingById,
   fired |-> <<>>, returned |-> <<>>, thrown |-> FALSE]

\* lines 206-210.  Reading parent.item of a node whose parent is null is a
\* TypeError.
selectedItemThrows(s) ==
  s.selectedItemState.set /\ s.selectedItemState.parent.idx = 0

NullPair == [isNull |-> TRUE, channel |-> NoItem, team |-> NoItem]

selectedItem(s) ==
  IF s.selectedItemState.set
  THEN [isNull |-> FALSE, channel |-> s.selectedItemState.item,
        team |-> s.selectedItemState.parent.item]
  ELSE NullPair

Throw(s) == [s EXCEPT !.thrown = TRUE]

\* an assignment to _treeViewState: the nodes of the tree it replaces are
\* no longer nodes of the current tree
setTreeViewState(s, tree) ==
  [s EXCEPT !.treeViewState = tree,
            !.selectedItemState = Stale(s.selectedItemState)]

\* the focus list is left as it is
resetFocusState_Keeps(s) == s

\* lines 814-817
resetFocusState(s) ==
  [s EXCEPT !.focusList = generateFocusList(s.treeViewState)]

filterList(s) ==
  IF s.items.defined
  THEN resetFocusState(
         [setTreeViewState(s,
            generateTreeViewState(s.items.value, s.inputValue, NullParent))
          EXCEPT !.focusedIndex = -1])
  ELSE s

gainedFocus(s) ==
  [s EXCEPT !.isFocused = TRUE, !.focusedIndex = -1, !.isDropdownVisible = TRUE]

\* line 915: the text is discarded when nothing is selected
lostFocusClearsInput(s) == selectedItem(s).isNull

lostFocus(s) ==
  LET s1 == [s EXCEPT !.isFocused = FALSE]
  IN IF selectedItemThrows(s1) THEN Throw(s1)
     ELSE filterList(
            [s1 EXCEPT !.inputValue = IF lostFocusClearsInput(s1) THEN <<>> ELSE @,
                       !.isDropdownVisible = FALSE])

\* line 924
selectChannelChanges(s, item) == s.selectedItemState # item

\* line 926
selectionChangedDetail(s, item) == IF item.set THEN <<selectedItem(s)>> ELSE <<>>

selectChannel(s, item) ==
  LET s1 == IF selectChannelChanges(s, item)
            THEN LET s0 == [s EXCEPT !.selectedItemState = item]
                 IN IF item.set /\ selectedItemThrows(s0) THEN Throw(s0)
                    ELSE [s0 EXCEPT !.fired =
                                     Append(@, selectionChangedDetail(s0, item))]
            ELSE s
  IN IF s1.thrown THEN s1
     ELSE lostFocus([s1 EXCEPT !.inputValue = <<>>])

-----------------------------------------------------------------------------
(* Handlers *)

\* the node at `path` is expanded, and stays so if it was
toggleExpanded_Expands(tree, path) ==
  IF Len(path) = 1
  THEN [tree EXCEPT ![path[1]].isExpanded = TRUE]
  ELSE [tree EXCEPT ![path[1]].channels[path[2]].isExpanded = TRUE]

\* item.isExpanded = !item.isExpanded on the node at `path`
toggleExpanded(tree, path) ==
  IF Len(path) = 1
  THEN [tree EXCEPT ![path[1]].isExpanded = ~@]
  ELSE [tree EXCEPT ![path[1]].channels[path[2]].isExpanded = ~@]

\* a click selects whatever item it hits
clickToggles_Never(node) == FALSE

\* line 714: the clicked item is a team
clickToggles(node) == node.hasChannels

handleItemClick(s, path) ==
  LET s1 == IF clickToggles(NodeAt(s.treeViewState, path))
            THEN [s EXCEPT !.treeViewState = toggleExpanded(@, path)]
            ELSE selectChannel(s, Ref(s.treeViewState, path))
  IN IF s1.thrown THEN s1
     ELSE resetFocusState([s1 EXCEPT !.focusedIndex = -1])

\* debounce of the utilities: a call cancels the waiting call, if any, and
\* schedules a new one, which runs once the delay has elapsed
debounce(s) == [s EXCEPT !.timerPending = TRUE]

\* the text is filtered at once, on every keystroke
debouncedSearch_Immediate(s) == filterList(s)

\* lines 742-748: filterList is called through debounce
debouncedSearch(s) == debounce(s)

\* line 735
inputClearsSelection(s) == [s EXCEPT !.selectedItemState = NoSelection]

handleInputChanged(s, value) ==
  IF s.inputValue = value THEN s
  ELSE
    LET s1 == [s EXCEPT !.inputValue = value]
    IN IF selectedItemThrows(s1) THEN Throw(s1)
       ELSE
         LET s2 == IF ~selectedItem(s1).isNull /\ Len(value) > 0
                   THEN inputClearsSelection(
                          filterList(
                            [s1 EXCEPT !.inputValue =
                               splitPop(@, selectedItem(s1).channel.displayName)]))
                   ELSE s1
         IN debouncedSearch(gainedFocus(s2))

\* _focusList[_focusedIndex] is defined
hasFocusedItem(s) == s.focusedIndex >= 0 /\ s.focusedIndex < Len(s.focusList)

focusedPath(s) == s.focusList[s.focusedIndex + 1]

\* the first press only moves the focus of the browser into the list
keyDown_FirstKeepsIndex(s) ==
  IF s.focusedIndex = -1 THEN s
  ELSE IF s.focusedIndex < Len(s.focusList) - 1
  THEN [s EXCEPT !.focusedIndex = @ + 1]
  ELSE s

\* lines 848-853
keyDown(s) ==
  IF s.focusedIndex < Len(s.focusList) - 1
  THEN [s EXCEPT !.focusedIndex = @ + 1]
  ELSE s

\* lines 856-863
keyUp(s) ==
  IF s.focusedIndex = 0 THEN [s EXCEPT !.focusedIndex = @ - 1]
  ELSE IF s.focusedIndex > 0 THEN [s EXCEPT !.focusedIndex = @ - 1]
  ELSE s

\* lines 871-884
keyEnter(s) ==
  IF hasFocusedItem(s) /\ NodeAt(s.treeViewState, focusedPath(s)).hasChannels
  THEN LET t == toggleExpanded(s.treeViewState, focusedPath(s))
       IN [s EXCEPT !.treeViewState = t, !.focusList = generateFocusList(t)]
  ELSE IF hasFocusedItem(s)
  THEN LET s1 == selectChannel(s, Ref(s.treeViewState, focusedPath(s)))
       IN IF s1.thrown THEN s1
          ELSE [resetFocusState(s1) EXCEPT !.focusedIndex = -1]
  ELSE s

\* lines 866-869, falling through to the case of the return key
keyTab(s) == IF ~hasFocusedItem(s) THEN lostFocus(s) ELSE keyEnter(s)

\* lines 887-890
keyBackspace(s) ==
  IF Len(s.inputValue) = 0 /\ s.selectedItemState.set
  THEN selectChannel(s, NoSelection)
  ELSE s

\* lines 893-896
keyEscape(s) ==
  LET s1 == selectChannel(s, s.selectedItemState)
  IN IF s1.thrown THEN s1
     ELSE resetFocusState([s1 EXCEPT !.focusedIndex = -1])

Keys == {"down", "up", "tab", "enter", "backspace", "esc"}

onUserKeyDown(s, key) ==
  IF Len(s.treeViewState) = 0 THEN s
  ELSE CASE key = "down" -> keyDown(s)
         [] key = "up" -> keyUp(s)
         [] key = "tab" -> keyTab(s)
         [] key = "enter" -> keyEnter(s)
         [] key = "backspace" -> keyBackspace(s)
         [] key = "esc" -> keyEscape(s)

clearState(s) ==
  [setTreeViewState(s, <<>>)
   EXCEPT !.items = [defined |-> TRUE, value |-> <<>>],
          !.inputValue = <<>>,
          !.focusList = <<>>]

\* lines 228-235: the items setter, handed a fresh array
setItems(s, value) ==
  resetFocusState(
    [setTreeViewState(s, generateTreeViewState(value, <<>>, NullParent))
     EXCEPT !.items = [defined |-> TRUE, value |-> value]])

\* refused scopes leave an empty list of teams
loadState_DeniedEmpties(s, outcome) ==
  CASE outcome.kind = "denied" -> resetFocusState(filterList(setItems(s, <<>>)))
    [] outcome.kind = "signedOut" -> resetFocusState(filterList(s))
    [] outcome.kind = "teams" ->
         resetFocusState(filterList(setItems(s, outcome.teams)))

\* lines 659-711.  outcome.kind: "signedOut" (line 663 fails), "denied" (the
\* scopes are refused, line 667) or "teams" with the DropdownItems of line 700
loadState(s, outcome) ==
  CASE outcome.kind = "denied" -> s
    [] outcome.kind = "signedOut" -> resetFocusState(filterList(s))
    [] outcome.kind = "teams" ->
         resetFocusState(filterList(setItems(s, outcome.teams)))

\* lines 305-312 on the teams from index k on: "error" is the TypeError of
\* iterating the undefined channels of a team
RECURSIVE scanById(_, _, _)
scanById(s, channelId, k) ==
  IF k > Len(s.treeViewState) THEN [s EXCEPT !.returned = Append(@, [id |-> channelId, result |-> "false"])]
  ELSE IF ~s.treeViewState[k].hasChannels
  THEN [s EXCEPT !.returned = Append(@, [id |-> channelId, result |-> "error"])]
  ELSE
    LET hits == {j \in 1..Len(s.treeViewState[k].channels) :
                   s.treeViewState[k].channels[j].item.id = channelId}
    IN IF hits = {} THEN scanById(s, channelId, k + 1)
       ELSE LET j == CHOOSE h \in hits : \A g \in hits : h <= g
                s1 == selectChannel(s, Ref(s.treeViewState, <<k, j>>))
            IN [s1 EXCEPT !.thrown = FALSE,
                          !.returned = Append(@, [id |-> channelId,
                             result |-> IF s1.thrown THEN "error" ELSE "true"])]

\* the part of selectChannelById after the load was awaited
resumeById(s, channelId) == scanById(s, channelId, 1)

\* requestStateUpdate of the base component, up to the call of loadState: a
\* load is started unless one is in flight, and then the caller awaits that one
requestStateUpdate(s) ==
  IF s.isLoadingState THEN s
  ELSE [s EXCEPT !.isLoadingState = TRUE, !.loadsInFlight = @ + 1]

\* lines 297-315
selectChannelById(s, channelId, signedIn) ==
  IF ~signedIn
  THEN [s EXCEPT !.returned = Append(@, [id |-> channelId, result |-> "false"])]
  ELSE IF ~s.items.defined
  THEN [requestStateUpdate(s) EXCEPT !.pendingById = Append(@, channelId)]
  ELSE resumeById(s, channelId)

\* every focus and mouseover requests an update of the state
loadTeamsIfNotLoaded_Always(s) == requestStateUpdate(s)

\* lines 819-823
loadTeamsIfNotLoaded(s) ==
  IF ~s.items.defined /\ ~s.isLoadingState THEN requestStateUpdate(s) ELSE s

\* the load ends: loadState runs to its end, the loading state is left, and
\* the selectChannelById calls that awaited it go on, in the order of the calls
RECURSIVE resumeAll(_, _)
resumeAll(s, ids) ==
  IF ids = <<>> THEN s
  ELSE resumeAll(resumeById(s, Head(ids)), Tail(ids))

loadCompletes(s, outcome) ==
  resumeAll([loadState(s, outcome) EXCEPT !.isLoadingState = FALSE,
                                          !.loadsInFlight = @ - 1,
                                          !.pendingById = <<>>],
            s.pendingById)

-----------------------------------------------------------------------------
(* Rendering of a channel *)

\* the text is searched as it is typed, in its casing
highlightLocation_CaseSensitive(displayName, text) == indexOf(displayName, text)

\* line 571
highlightLocation(displayName, text) ==
  indexOf(toLowerCase(displayName), toLowerCase(text))

\* lines 567-606: the three spans the name of a channel is rendered in.  Where
\* the text is not found, first and highlight stay undefined, which renders
\* as empty text.
renderHighlightedText(displayName, text) ==
  LET loc == highlightLocation(displayName, text)
      n == Len(displayName)
  IN IF loc # -1
     THEN IF loc = 0
          THEN [first |-> <<>>,
                highlight |-> slice(displayName, 0, Len(text)),
                last |-> slice(displayName, Len(text), n)]
          ELSE IF loc = n
          THEN [first |-> slice(displayName, 0, loc),
                highlight |-> slice(displayName, loc, n),
                last |-> <<>>]
          ELSE [first |-> slice(displayName, 0, loc),
                highlight |-> slice(displayName, loc, loc + Len(text)),
                last |-> slice(displayName, loc + Len(text), n)]
     ELSE [first |-> <<>>, highlight |-> <<>>, last |-> displayName]

-----------------------------------------------------------------------------
(* Inputs *)

\* the display names of the model
Names == {<<"A", "b">>, <<"b", " ">>}

\* the texts typed into the field
Texts == {<<>>, <<"a">>, <<"B">>, <<" ">>}

\* the filter strings the tree builder is applied to
FilterStrings == Texts \cup {<<"A", "B">>}

\* what the Graph may answer to a load (line 700): teams with their channels,
\* a team whose channels request failed (line 691), a team without channels
LoadableTeams ==
  { << TeamItem(Item(1, <<"A", "b">>),
                << LeafItem(Item(11, <<"b", " ">>)), LeafItem(Item(12, <<"A", "b">>)) >>),
       LeafItem(Item(2, <<"b", " ">>)) >>,
    << LeafItem(Item(2, <<"b", " ">>)),
       TeamItem(Item(1, <<"A", "b">>), << LeafItem(Item(11, <<"b", " ">>)) >>) >>,
    << TeamItem(Item(1, <<"A", "b">>), << LeafItem(Item(11, <<"b", " ">>)) >>),
       TeamItem(Item(3, <<"b", " ">>), <<>>) >> }

\* the channel ids selectChannelById is called with
ChannelIds == {11, 12, 99}

LoadOutcomes ==
  {[kind |-> "signedOut", teams |-> <<>>], [kind |-> "denied", teams |-> <<>>]}
  \cup {[kind |-> "teams", teams |-> t] : t \in LoadableTeams}

\* all sequences over S of length at most n
SeqsUpTo(S, n) == UNION {[1..k -> S] : k \in 0..n}

\* the characters of the names and texts renderHighlightedText is checked on
Alphabet == {"A", "a", "b"}

\* the names of the channel that is rendered
HighlightNames == SeqsUpTo(Alphabet, MaxNameLen) \ {<<>>}

\* the texts typed while it is rendered
HighlightTexts == SeqsUpTo(Alphabet, MaxTextLen)

\* the teams a source tree may hold at position i, of at most n nodes each:
\* the channels are undefined, or a list of at most n - 1 channels
TeamsAt(i, n) ==
  {LeafItem(Item(i, nm)) : nm \in Names}
  \cup {TeamItem(Item(i, nm),
                 [j \in 1..Len(cs) |-> LeafItem(Item(10 * i + j, cs[j]))]) :
          nm \in Names, cs \in SeqsUpTo(Names, n - 1)}

\* the source trees of at most n nodes whose first team has position i
RECURSIVE TreesWithin(_, _)
TreesWithin(n, i) ==
  {<<>>} \cup
  (IF n = 0 THEN {}
   ELSE UNION {{<<t>> \o rest : rest \in TreesWithin(n - 1 - Len(t.channels), i + 1)} :
                 t \in TeamsAt(i, n)})

\* every source tree of at most MaxNodes nodes
BoundedTrees == TreesWithin(MaxNodes, 1)

\* the paths of all nodes of a tree
AllPaths(tree) ==
  {<<k>> : k \in 1..Len(tree)}
  \cup UNION {{<<k, j>> : j \in 1..Len(tree[k].channels)} : k \in 1..Len(tree)}

\* line 398: the text the field shows while a channel is selected
teamChannel(s) ==
  s.selectedItemState.parent.item.displayName \o <<" ", ">", " ">>
    \o s.selectedItemState.item.displayName

\* the values the field may hold at a keyup: a typed text, or, while a channel
\* is selected, the shown text with a text typed after it or its last
\* character deleted
InputValues(s) ==
  IF s.selectedItemState.set /\ ~selectedItemThrows(s)
  THEN Texts \cup {teamChannel(s) \o t : t \in Texts}
             \cup {SubSeq(teamChannel(s), 1, Len(teamChannel(s)) - 1)}
  ELSE Texts

-----------------------------------------------------------------------------
(* The component as a state machine *)

\* the fields after a handler has run, what it dispatched and returned, and
\* whether an exception left it
Commit(s, name, key) ==
  /\ items' = s.items
  /\ inputValue' = s.inputValue
  /\ isFocused' = s.isFocused
  /\ selectedItemState' = s.selectedItemState
  /\ treeViewState' = s.treeViewState
  /\ focusList' = s.focusList
  /\ focusedIndex' = s.focusedIndex
  /\ isDropdownVisible' = s.isDropdownVisible
  /\ isLoadingState' = s.isLoadingState
  /\ loadsInFlight' = s.loadsInFlight
  /\ timerPending' = s.timerPending
  /\ pendingById' = s.pendingById
  /\ fired' = s.fired
  /\ lastOp' = [op |-> name, key |-> key, thrown |-> s.thrown,
                returned |-> s.returned]

\* lines 244-260: the fields of a constructed component
Init ==
  /\ items = [defined |-> FALSE, value |-> <<>>]
  /\ inputValue = <<>>
  /\ isFocused = FALSE
  /\ selectedItemState = NoSelection
  /\ treeViewState = <<>>
  /\ focusList = <<>>
  /\ focusedIndex = -1
  /\ isDropdownVisible = FALSE
  /\ isLoadingState = FALSE
  /\ loadsInFlight = 0
  /\ timerPending = FALSE
  /\ pendingById = <<>>
  /\ fired = <<>>
  /\ lastOp = [op |-> "constructor", key |-> "", thrown |-> FALSE, returned |-> <<>>]

\* focus or mouseover on the element (lines 266-267)
Hover == Commit(loadTeamsIfNotLoaded(Cur), "hover", "")

\* the base component requests an update of the state (a change of the provider)
ProviderUpdate ==
  /\ ~isLoadingState
  /\ Commit(requestStateUpdate(Cur), "requestStateUpdate", "")

\* the load in flight ends
LoadCompletes ==
  /\ isLoadingState
  /\ \E outcome \in LoadOutcomes :
       Commit(loadCompletes(Cur, outcome), "load", outcome.kind)

\* the base component clears the state (lines 355-360)
ClearState == Commit(clearState(Cur), "clearState", "")

\* a click on the text field or on the opening chevron (lines 405, 434)
ClickInput == Commit(gainedFocus(Cur), "gainedFocus", "")

\* blur, a click outside the element, a click on the closing chevron
\* (lines 337, 439, 825-829)
LoseFocus == Commit(lostFocus(Cur), "lostFocus", "")

\* a click on the close icon, shown while a channel is selected (line 429)
ClickClose ==
  /\ selectedItemState.set
  /\ Commit(selectChannel(Cur, NoSelection), "close", "")

\* a click on an item of the open dropdown (lines 500, 510)
ClickItem ==
  /\ isDropdownVisible
  /\ \E path \in AllPaths(treeViewState) :
       Commit(handleItemClick(Cur, path), "click",
              IF NodeAt(treeViewState, path).hasChannels THEN "team" ELSE "leaf")

\* keyup in the text field (line 406)
InputChanged ==
  \E value \in InputValues(Cur) :
    Commit(handleInputChanged(Cur, value), "input",
           IF Len(value) = 0 THEN "empty" ELSE "text")

\* keydown on the element (line 265)
KeyDown ==
  \E key \in Keys : Commit(onUserKeyDown(Cur, key), "key", key)

\* the delay of the waiting debounced call elapses (lines 743-745)
DebounceFires ==
  /\ timerPending
  /\ Commit(filterList([Cur EXCEPT !.timerPending = FALSE]), "debounce", "")

\* a call of selectChannelById
SelectById ==
  \E channelId \in ChannelIds, signedIn \in BOOLEAN :
    /\ (signedIn /\ ~items.defined) => Len(pendingById) < MaxPending
    /\ Commit(selectChannelById(Cur, channelId, signedIn), "selectById",
              IF signedIn THEN "signedIn" ELSE "signedOut")

Next ==
  \/ Hover
  \/ ProviderUpdate
  \/ LoadCompletes
  \/ ClearState
  \/ ClickInput
  \/ LoseFocus
  \/ ClickClose
  \/ ClickItem
  \/ InputChanged
  \/ KeyDown
  \/ DebounceFires
  \/ SelectById

Spec == Init /\ [][Next]_vars

-----------------------------------------------------------------------------
(* The tree builder and the focus list on every source tree within the bound *)

\* a component whose load has answered with a tree of BoundedTrees
InitBuild ==
  \E t \in BoundedTrees :
    LET s == loadCompletes(
               [items |-> [defined |-> FALSE, value |-> <<>>], inputValue |-> <<>>,
                isFocused |-> FALSE, selectedItemState |-> NoSelection,
                treeViewState |-> <<>>, focusList |-> <<>>, focusedIndex |-> -1,
                isDropdownVisible |-> FALSE, isLoadingState |-> TRUE,
                loadsInFlight |-> 1,
                timerPending |-> FALSE, pendingById |-> <<>>, fired |-> <<>>,
                returned |-> <<>>, thrown |-> FALSE],
               [kind |-> "teams", teams |-> t])
    IN /\ items = s.items
       /\ inputValue = s.inputValue
       /\ isFocused = s.isFocused
       /\ selectedItemState = s.selectedItemState
       /\ treeViewState = s.treeViewState
       /\ focusList = s.focusList
       /\ focusedIndex = s.focusedIndex
       /\ isDropdownVisible = s.isDropdownVisible
       /\ isLoadingState = s.isLoadingState
       /\ loadsInFlight = s.loadsInFlight
       /\ timerPending = s.timerPending
       /\ pendingById = s.pendingById
       /\ fired = s.fired
       /\ lastOp = [op |-> "load", key |-> "teams", thrown |-> FALSE, returned |-> <<>>]

\* a filter string is typed and the delay of the debounced call elapses
TypeFilter ==
  \E f \in FilterStrings :
    Commit(filterList([handleInputChanged(Cur, f) EXCEPT !.timerPending = FALSE]),
           "filter", "")

\* a click on a team of the open dropdown
ClickTeam ==
  /\ isDropdownVisible
  /\ \E k \in 1..Len(treeViewState) :
       /\ treeViewState[k].hasChannels
       /\ Commit(handleItemClick(Cur, <<k>>), "click", "team")

NextBuild == TypeFilter \/ ClickTeam

SpecBuild == InitBuild /\ [][NextBuild]_vars

-----------------------------------------------------------------------------
(* The rendering of a channel on every name and text within the bounds *)

\* a component whose load has answered with one team of one channel, of a
\* name of HighlightNames
InitHighlight ==
  \E n \in HighlightNames :
    LET s == loadCompletes(
               [items |-> [defined |-> FALSE, value |-> <<>>], inputValue |-> <<>>,
                isFocused |-> FALSE, selectedItemState |-> NoSelection,
                treeViewState |-> <<>>, focusList |-> <<>>, focusedIndex |-> -1,
                isDropdownVisible |-> FALSE, isLoadingState |-> TRUE,
                loadsInFlight |-> 1,
                timerPending |-> FALSE, pendingById |-> <<>>, fired |-> <<>>,
                returned |-> <<>>, thrown |-> FALSE],
               [kind |-> "teams",
                teams |-> << TeamItem(Item(1, <<"A", "b">>),
                                      << LeafItem(Item(11, n)) >>) >>])
    IN /\ items = s.items
       /\ inputValue = s.inputValue
       /\ isFocused = s.isFocused
       /\ selectedItemState = s.selectedItemState
       /\ treeViewState = s.treeViewState
       /\ focusList = s.focusList
       /\ focusedIndex = s.focusedIndex
       /\ isDropdownVisible = s.isDropdownVisible
       /\ isLoadingState = s.isLoadingState
       /\ loadsInFlight = s.loadsInFlight
       /\ timerPending = s.timerPending
       /\ pendingById = s.pendingById
       /\ fired = s.fired
       /\ lastOp = [op |-> "load", key |-> "teams", thrown |-> FALSE, returned |-> <<>>]

\* a text of HighlightTexts is typed and the delay of the debounced call
\* elapses: the channels shown are rendered with the text
TypeHighlight ==
  \E f \in HighlightTexts :
    Commit(filterList([handleInputChanged(Cur, f) EXCEPT !.timerPending = FALSE]),
           "filter", "")

NextHighlight == TypeHighlight

SpecHighlight == InitHighlight /\ [][NextHighlight]_vars

-----------------------------------------------------------------------------
(* Properties of the tree builder *)

\* two characters that differ at most in case
SameLetter(c, d) ==
  \/ c = d
  \/ {c, d} = {"A", "a"}
  \/ {c, d} = {"B", "b"}

\* name contains f, case-insensitively
ContainsCI(name, f) ==
  \E i \in 0..(Len(name) - Len(f)) :
    \A j \in 1..Len(f) : SameLetter(name[i + j], f[j])

\* the items of a list of nodes, in order
ItemsOf(nodes) == [k \in 1..Len(nodes) |-> nodes[k].item]

\* the top-level node of the presentation tree that shows source node k
ShownAt(k) ==
  {n \in 1..Len(treeViewState) : treeViewState[n].item = items.value[k].item}

ChannelShown(k, j) ==
  \E n \in ShownAt(k) :
    \E m \in 1..Len(treeViewState[n].channels) :
      treeViewState[n].channels[m].item = items.value[k].channels[j].item

\* the presentation tree was built by the last step, for the current text
JustBuilt == lastOp.op \in {"filter", "load"}

\* C1: a channel is in build(T, f) iff its own name or the name of its team
\* contains f, case-insensitively (a leaf without a team: iff its own name
\* does), and a team whose own name contains f keeps all its channels, in the
\* order of the source.
C1_LeafPresence ==
  \A k \in 1..Len(items.value) :
    LET team == items.value[k]
    IN /\ \A j \in 1..Len(team.channels) :
            ChannelShown(k, j) <=>
              \/ ContainsCI(team.channels[j].item.displayName, inputValue)
              \/ ContainsCI(team.item.displayName, inputValue)
       /\ ~team.hasChannels =>
            (ShownAt(k) # {} <=> ContainsCI(team.item.displayName, inputValue))
       /\ (team.hasChannels /\ ContainsCI(team.item.displayName, inputValue)) =>
            \E n \in ShownAt(k) :
              ItemsOf(treeViewState[n].channels) = ItemsOf(team.channels)

\* a non-empty filter has kept a channel for the name of its team alone and
\* has dropped another channel
C1_Witness ==
  /\ lastOp.op = "filter"
  /\ Len(inputValue) > 0
  /\ \E k \in 1..Len(items.value) : \E j \in 1..Len(items.value[k].channels) :
       /\ ChannelShown(k, j)
       /\ ~ContainsCI(items.value[k].channels[j].item.displayName, inputValue)
  /\ \E k \in 1..Len(items.value) : \E j \in 1..Len(items.value[k].channels) :
       ~ChannelShown(k, j)

\* C2: build(T, '') is isomorphic to T: the same nodes in the same order and
\* structure, every channel's parent its team node, no node expanded.
C2_EmptyFilterIsomorphic ==
  (JustBuilt /\ inputValue = <<>>) =>
    /\ Len(treeViewState) = Len(items.value)
    /\ \A k \in 1..Len(treeViewState) :
         LET node == treeViewState[k]
             src == items.value[k]
         IN /\ node.item = src.item
            /\ node.parent = NullParent
            /\ node.hasChannels = src.hasChannels
            /\ ~node.isExpanded
            /\ ItemsOf(node.channels) = ItemsOf(src.channels)
            /\ \A j \in 1..Len(node.channels) :
                 /\ node.channels[j].parent.idx = k
                 /\ node.channels[j].parent.item = node.item
                 /\ ~node.channels[j].hasChannels
                 /\ ~node.channels[j].isExpanded

\* the empty filter has rebuilt a tree of two teams, one with channels, after
\* a text had been typed
C2_Witness ==
  /\ lastOp.op = "filter"
  /\ inputValue = <<>>
  /\ isDropdownVisible
  /\ Len(treeViewState) >= 2
  /\ \E k \in 1..Len(treeViewState) : Len(treeViewState[k].channels) >= 2

\* C3: under a non-empty filter f a team is in build(T, f) iff its own name
\* contains f or the name of one of its channels does.
C3_TeamPresence ==
  Len(inputValue) > 0 =>
    \A k \in 1..Len(items.value) :
      ShownAt(k) # {} <=>
        \/ ContainsCI(items.value[k].item.displayName, inputValue)
        \/ \E j \in 1..Len(items.value[k].channels) :
             ContainsCI(items.value[k].channels[j].item.displayName, inputValue)

\* a non-empty filter has kept a team for a channel alone and dropped a team
\* that has channels
C3_Witness ==
  /\ lastOp.op = "filter"
  /\ Len(inputValue) > 0
  /\ \E k \in 1..Len(items.value) :
       /\ ShownAt(k) # {}
       /\ ~ContainsCI(items.value[k].item.displayName, inputValue)
  /\ \E k \in 1..Len(items.value) :
       /\ ShownAt(k) = {}
       /\ Len(items.value[k].channels) > 0

\* f is not empty and holds nothing but whitespace
WhitespaceOnly(f) == Len(f) > 0 /\ \A i \in 1..Len(f) : f[i] = " "

\* name contains f, character for character
ContainsLiteral(name, f) ==
  \E i \in 0..(Len(name) - Len(f)) : SubSeq(name, i + 1, i + Len(f)) = f

\* the teams of the source a filter of whitespace keeps
KeptByWhitespace(f) ==
  SelectSeq(items.value,
    LAMBDA t : \/ ContainsLiteral(t.item.displayName, f)
               \/ \E j \in 1..Len(t.channels) :
                    ContainsLiteral(t.channels[j].item.displayName, f))

\* the channels of team t a filter of whitespace keeps
ChannelsKeptByWhitespace(t, f) ==
  IF ContainsLiteral(t.item.displayName, f) THEN t.channels
  ELSE SelectSeq(t.channels, LAMBDA c : ContainsLiteral(c.item.displayName, f))

\* C4 as claimed: a filter of whitespace only builds what the empty filter builds.
C4_WhitespaceIsNoFilter ==
  (JustBuilt /\ WhitespaceOnly(inputValue)) =>
    treeViewState = generateTreeViewState(items.value, <<>>, NullParent)

\* C4, amended: only the empty string is no filter.  A filter of whitespace
\* only is compared like any other filter: the tree it builds holds the teams
\* whose name or one of whose channels' names contains that whitespace, each
\* expanded if it has a channel list, with all its channels if its own name
\* contains the whitespace and with the channels that contain it otherwise.
C4_WhitespaceIsCompared ==
  (JustBuilt /\ WhitespaceOnly(inputValue)) =>
    /\ ItemsOf(treeViewState) = ItemsOf(KeptByWhitespace(inputValue))
    /\ \A n \in 1..Len(treeViewState) :
         /\ treeViewState[n].isExpanded = treeViewState[n].hasChannels
         /\ ItemsOf(treeViewState[n].channels) =
              ItemsOf(ChannelsKeptByWhitespace(KeptByWhitespace(inputValue)[n],
                                               inputValue))

\* a filter of whitespace has dropped a team and, of a team it kept, a channel
C4_Witness ==
  /\ lastOp.op = "filter"
  /\ WhitespaceOnly(inputValue)
  /\ Len(treeViewState) > 0
  /\ Len(treeViewState) < Len(items.value)
  /\ \E n \in 1..Len(treeViewState) : \E k \in 1..Len(items.value) :
       /\ treeViewState[n].item = items.value[k].item
       /\ Len(treeViewState[n].channels) > 0
       /\ Len(treeViewState[n].channels) < Len(items.value[k].channels)

-----------------------------------------------------------------------------
(* Properties of the focus list *)

\* every ancestor of the node at path p is expanded
AncestorsExpanded(tree, p) == Len(p) = 1 \/ tree[p[1]].isExpanded

\* p comes before q in the pre-order of the tree
PreorderBefore(p, q) ==
  \/ p[1] < q[1]
  \/ /\ p[1] = q[1]
     /\ \/ Len(p) < Len(q)
        \/ Len(p) = 2 /\ Len(q) = 2 /\ p[2] < q[2]

\* list holds each node of tree whose ancestors are all expanded, once, in
\* pre-order
IsPreorderOfExpanded(list, tree) ==
  /\ {list[i] : i \in 1..Len(list)} = {p \in AllPaths(tree) : AncestorsExpanded(tree, p)}
  /\ \A i, j \in 1..Len(list) : i < j => PreorderBefore(list[i], list[j])

\* C5: flatten(tree) is the pre-order traversal of the nodes all of whose
\* ancestors are expanded: it holds no node under a collapsed team, and it
\* holds every top-level node.
C5_FlattenIsPreorder ==
  LET list == generateFocusList(treeViewState)
  IN /\ IsPreorderOfExpanded(list, treeViewState)
     /\ \A k \in 1..Len(treeViewState) : \E i \in 1..Len(list) : list[i] = <<k>>

\* a tree with the channels of one team shown and those of another hidden,
\* after a click on a team
C5_Witness ==
  /\ lastOp.op = "click"
  /\ \E k, n \in 1..Len(treeViewState) :
       /\ treeViewState[k].isExpanded /\ Len(treeViewState[k].channels) > 0
       /\ ~treeViewState[n].isExpanded /\ Len(treeViewState[n].channels) > 0
  /\ Len(generateFocusList(treeViewState)) < Cardinality(AllPaths(treeViewState))

-----------------------------------------------------------------------------
(* Properties of the selection *)

\* what the selectedItem accessor yields for a selection whose parent is set
PairOf(sel) ==
  IF sel.set
  THEN [isNull |-> FALSE, channel |-> sel.item, team |-> sel.parent.item]
  ELSE NullPair

\* the loaded source tree holds a channel of this id
HasChannelId(id) ==
  \E k \in 1..Len(items.value) : \E j \in 1..Len(items.value[k].channels) :
    items.value[k].channels[j].item.id = id

\* C6: the selection is absent or references a leaf, a node without a list of
\* children; no click, key, selectChannelById, text or load selects a node
\* that has one.
C6_SelectionIsLeaf == selectedItemState.set => ~selectedItemState.hasChannels

\* a click on a channel of a tree that also holds a team with channels has
\* selected the channel
C6_Witness ==
  /\ lastOp.op = "click"
  /\ lastOp.key = "leaf"
  /\ selectedItemState.set
  /\ selectedItemState.parent.idx > 0
  /\ fired # <<>>
  /\ \E k \in 1..Len(treeViewState) : treeViewState[k].hasChannels

\* C7: every step that changes the selected pair dispatches selectionChanged,
\* with an empty collection when the selection became absent and with the new
\* pair alone otherwise.
C7_ChangeNotifies ==
  [][PairOf(selectedItemState') # PairOf(selectedItemState) =>
       /\ fired' # <<>>
       /\ fired'[Len(fired')] =
            IF selectedItemState'.set THEN <<PairOf(selectedItemState')>> ELSE <<>>]_vars

\* C8: a call of selectChannelById under a signed-in provider returns true,
\* with that channel selected, iff the loaded source tree holds a channel of
\* the id, whatever the text of the filter.
C8_ByIdFindsLoadedChannel ==
  \A i \in 1..Len(lastOp.returned) :
    (lastOp.key # "signedOut" /\ lastOp.returned[i].result \in {"true", "false"}) =>
      /\ lastOp.returned[i].result = "true" <=> HasChannelId(lastOp.returned[i].id)
      /\ (i = Len(lastOp.returned) /\ lastOp.returned[i].result = "true") =>
           /\ selectedItemState.set
           /\ selectedItemState.item.id = lastOp.returned[i].id

\* C9: a click, a key or selectChannelById that selects the channel already
\* selected dispatches no selectionChanged and leaves the selection as it was.
C9_ReselectIsSilent ==
  [][(/\ selectedItemState.set
      /\ lastOp'.op \in {"click", "key", "selectById"}
      /\ PairOf(selectedItemState') = PairOf(selectedItemState)) =>
       fired' = <<>>]_vars

\* C10: whenever a node is selected, the accessor yields a channel and a team:
\* the parent of the selected node is not null.
C10_SelectedHasTeam ==
  selectedItemState.set =>
    /\ selectedItemState.parent # NullParent
    /\ selectedItemState.item # NoItem

\* what a read of the selectedItem accessor gives: the pair (NullPair for
\* null), or the TypeError of lines 206-210
Accessor(s) ==
  IF selectedItemThrows(s) THEN [error |-> TRUE, pair |-> NullPair]
  ELSE [error |-> FALSE, pair |-> selectedItem(s)]

\* the pair of the leaf at path p of the tree
LeafPair(tree, p) ==
  [isNull |-> FALSE, channel |-> NodeAt(tree, p).item,
   team |-> NodeAt(tree, p).parent.item]

\* the step re-derives the tree or the focus list and neither selects nor
\* clears: a rebuild, a load, a move of the focus, a toggle of a team
Rederives ==
  \/ lastOp'.op \in {"debounce", "lostFocus", "gainedFocus", "hover",
                     "requestStateUpdate"}
  \/ lastOp'.op = "load" /\ lastOp'.returned = <<>>
  \/ lastOp'.op = "click" /\ lastOp'.key = "team"
  \/ lastOp'.op = "key" /\ lastOp'.key \in {"down", "up"}
  \/ /\ lastOp'.op = "key" /\ lastOp'.key = "enter"
     /\ Len(treeViewState) > 0
     /\ hasFocusedItem(Cur)
     /\ NodeAt(treeViewState, focusedPath(Cur)).hasChannels

\* C11: after a leaf L is selected the accessor returns the pair of L.item
\* and L.parent.item; after null is selected it returns null; a step that
\* re-derives the tree without selecting or clearing leaves what the accessor
\* returns as it was.
C11_AccessorPair ==
  [][/\ (lastOp'.op = "click" /\ lastOp'.key = "leaf") =>
          \E p \in AllPaths(treeViewState) :
            /\ ~NodeAt(treeViewState, p).hasChannels
            /\ Accessor(Cur') = [error |-> FALSE, pair |-> LeafPair(treeViewState, p)]
     /\ lastOp'.op = "close" => Accessor(Cur') = [error |-> FALSE, pair |-> NullPair]
     /\ Rederives => Accessor(Cur') = Accessor(Cur)]_vars

-----------------------------------------------------------------------------
(* Properties of the keyboard navigation *)

\* the step is a press of the Down key over a focus list that is not empty
DownPressed ==
  lastOp'.op = "key" /\ lastOp'.key = "down" /\ Len(focusList) > 0

\* C12, as claimed: the first press of Down, at index -1, leaves the index
\* at -1; from an index i >= 0 a press advances it by one, up to the last
\* index.
C12_FirstDownKeepsIndex ==
  [][DownPressed =>
       focusedIndex' = IF focusedIndex = -1 THEN -1
                       ELSE IF focusedIndex < Len(focusList) - 1
                       THEN focusedIndex + 1
                       ELSE focusedIndex]_vars

\* C12, amended: every press of Down, the first one at index -1 included,
\* advances the index by one, up to the last index: the first press moves it
\* from -1 to 0, and at the last index it stays.
C12_DownAdvances ==
  [][DownPressed =>
       /\ focusedIndex = -1 => focusedIndex' = 0
       /\ (focusedIndex >= 0 /\ focusedIndex < Len(focusList) - 1) =>
            focusedIndex' = focusedIndex + 1
       /\ focusedIndex >= Len(focusList) - 1 => focusedIndex' = focusedIndex
       /\ focusList' = focusList]_vars

\* a press of Down has moved the index from -1 to 0 in a list of several
\* entries (from 0 it would have moved on to 1)
C12_Witness ==
  /\ lastOp.op = "key"
  /\ lastOp.key = "down"
  /\ Len(focusList) > 1
  /\ focusedIndex = 0

-----------------------------------------------------------------------------
(* Properties of the text field *)

\* the step is a keystroke that changes the text while nothing is selected
TypedUnselected ==
  lastOp'.op = "input" /\ ~selectedItemState.set /\ inputValue' # inputValue

\* C13: while nothing is selected, a keystroke that changes the text leaves
\* the tree and the focus list as they are and leaves one debounced call
\* waiting; the tree for the typed text is built when the delay of that call
\* elapses, which leaves no call waiting.
C13_KeystrokeDefersRebuild ==
  [][/\ TypedUnselected =>
          /\ treeViewState' = treeViewState
          /\ focusList' = focusList
          /\ timerPending'
     /\ lastOp'.op = "debounce" =>
          /\ timerPending /\ ~timerPending'
          /\ inputValue' = inputValue
          /\ items.defined =>
               treeViewState' =
                 generateTreeViewState(items.value, inputValue, NullParent)]_vars

\* a text has been typed that the tree shown does not reflect yet, and the
\* debounced call waits
C13_Witness ==
  /\ lastOp.op = "input"
  /\ ~selectedItemState.set
  /\ timerPending
  /\ Len(inputValue) > 0
  /\ items.defined
  /\ treeViewState # generateTreeViewState(items.value, inputValue, NullParent)

\* the step selects a node or null: a click on a leaf, the return key on a
\* focused leaf, a selectChannelById that found its channel, the close icon
Selects ==
  \/ lastOp'.op = "click" /\ lastOp'.key = "leaf"
  \/ /\ lastOp'.op = "key" /\ lastOp'.key = "enter"
     /\ Len(treeViewState) > 0
     /\ hasFocusedItem(Cur)
     /\ ~NodeAt(treeViewState, focusedPath(Cur)).hasChannels
  \/ /\ lastOp'.op \in {"selectById", "load"}
     /\ \E i \in 1..Len(lastOp'.returned) : lastOp'.returned[i].result = "true"
  \/ lastOp'.op = "close"

\* C14: a step that selects a node or null leaves the text empty, the
\* dropdown not visible and the tree built for the empty filter.
C14_SelectResetsField ==
  [][Selects =>
       /\ inputValue' = <<>>
       /\ ~isDropdownVisible'
       /\ treeViewState' = generateTreeViewState(items'.value, <<>>, NullParent)]_vars

\* C15: a loss of focus (blur, a click outside the element) leaves the
\* dropdown not visible and, if nothing is selected, the text empty; a
\* debounced call that waited at that moment and elapses afterwards leaves
\* the text empty and builds the tree for the empty filter.
C15_LostFocusCloses ==
  [][/\ lastOp'.op = "lostFocus" =>
          /\ ~isDropdownVisible'
          /\ ~selectedItemState.set => inputValue' = <<>>
     /\ (lastOp.op = "lostFocus" /\ lastOp'.op = "debounce") =>
          /\ ~isDropdownVisible'
          /\ ~selectedItemState.set =>
               /\ inputValue' = <<>>
               /\ treeViewState' =
                    generateTreeViewState(items'.value, <<>>, NullParent)]_vars

-----------------------------------------------------------------------------
(* Properties of the rendering of a channel *)

\* the 0-based positions at which f occurs in name, case-insensitively
OccursCIAt(name, f) ==
  {i \in 0..(Len(name) - Len(f)) :
     \A j \in 1..Len(f) : SameLetter(name[i + j], f[j])}

\* C16: for the name of every channel and the text of the field, the spans
\* first, highlight and last of renderHighlightedText concatenate to the name
\* in its own casing; if the text occurs in the name, case-insensitively,
\* first is what precedes the first occurrence, highlight has the length of
\* the text and last is the rest (empty where the occurrence ends the name);
\* if it does not occur, first and highlight are empty and last is the name.
C16_HighlightSplits ==
  \A k \in 1..Len(items.value) : \A j \in 1..Len(items.value[k].channels) :
    LET name == items.value[k].channels[j].item.displayName
        h == renderHighlightedText(name, inputValue)
        occ == OccursCIAt(name, inputValue)
    IN /\ h.first \o h.highlight \o h.last = name
       /\ occ # {} =>
            \E i \in occ :
              /\ \A o \in occ : i <= o
              /\ h.first = SubSeq(name, 1, i)
              /\ Len(h.highlight) = Len(inputValue)
              /\ h.last = SubSeq(name, i + Len(inputValue) + 1, Len(name))
       /\ occ = {} =>
            /\ h.first = <<>>
            /\ h.highlight = <<>>
            /\ h.last = name

\* a text has been typed that occurs in the name of the channel in another
\* casing, after its first character and up to its end
C16_Witness ==
  /\ lastOp.op = "filter"
  /\ \E k \in 1..Len(items.value) : \E j \in 1..Len(items.value[k].channels) :
       LET name == items.value[k].channels[j].item.displayName
           h == renderHighlightedText(name, inputValue)
       IN /\ Len(inputValue) > 0
          /\ h.first # <<>>
          /\ h.highlight # <<>>
          /\ h.highlight # inputValue
          /\ h.last = <<>>

-----------------------------------------------------------------------------
(* Properties of the load *)

\* the step is a focus, a mouseover or a call of selectChannelById
LoadTrigger == lastOp'.op \in {"hover", "selectById"}

C18_DeniedLoadsNothing ==
  [][(lastOp'.op = "load" /\ lastOp'.key = "denied") =>
       /\ items' = items
       /\ treeViewState' = treeViewState
       /\ focusList' = focusList
       /\ selectedItemState' = selectedItemState
       /\ fired' = <<>>
       /\ ~lastOp'.thrown
       /\ ~items.defined =>
            /\ ~items'.defined
            /\ treeViewState' = <<>>
            /\ focusList' = <<>>
            /\ ~selectedItemState'.set
            /\ Len(lastOp'.returned) = Len(pendingById)
            /\ \A i \in 1..Len(lastOp'.returned) :
                 lastOp'.returned[i] = [id |-> pendingById[i], result |-> "false"]]_vars

\* a load that a selectChannelById awaited has ended on refused scopes, with
\* nothing loaded, and the call has returned
C18_Witness ==
  /\ lastOp.op = "load"
  /\ lastOp.key = "denied"
  /\ lastOp.returned # <<>>
  /\ ~items.defined
  /\ ~isLoadingState

-----------------------------------------------------------------------------
(* Properties of the filtered tree *)

\* C19: right after a rebuild with a filter that is not empty, every team of
\* the tree that has a list of channels is expanded, and the focus list
\* holds every node of the tree.
C19_FilteredTreeIsOpen ==
  (JustBuilt /\ Len(inputValue) > 0) =>
    /\ \A k \in 1..Len(treeViewState) :
         treeViewState[k].hasChannels => treeViewState[k].isExpanded
    /\ {focusList[i] : i \in 1..Len(focusList)} = AllPaths(treeViewState)

\* a filter has kept a team for one of its channels and another team for its
\* own name, with all its channels, and the focus list holds them all
C19_Witness ==
  /\ lastOp.op = "filter"
  /\ Len(inputValue) > 0
  /\ \E k, n \in 1..Len(treeViewState) :
       /\ ~ContainsCI(treeViewState[k].item.displayName, inputValue)
       /\ Len(treeViewState[k].channels) > 0
       /\ ContainsCI(treeViewState[n].item.displayName, inputValue)
       /\ Len(treeViewState[n].channels) > 0
  /\ Len(focusList) = Cardinality(AllPaths(treeViewState))

\* C20: whenever a node is selected the text of the field is empty, and a
\* keystroke that leaves a text that is not empty leaves nothing selected.
C20_SelectionMeansNoText ==
  selectedItemState.set => inputValue = <<>>

-----------------------------------------------------------------------------
(* Frame of the keys *)

\* the step is the return key on a focused team of the tree
EnterOnTeam ==
  /\ lastOp'.op = "key" /\ lastOp'.key = "enter"
  /\ Len(treeViewState) > 0
  /\ hasFocusedItem(Cur)
  /\ NodeAt(treeViewState, focusedPath(Cur)).hasChannels

\* C21: the return key on a focused team inverts the expanded flag of that
\* team and of no other node, and rebuilds the focus list from the tree; the
\* focus index, the selection, and the text stay as they were, nothing is
\* dispatched, and the focus index still designates that team.
C21_EnterTogglesFocusedTeam ==
  [][EnterOnTeam =>
       LET p == focusedPath(Cur)
       IN /\ Len(p) = 1
          /\ Len(treeViewState') = Len(treeViewState)
          /\ \A k \in 1..Len(treeViewState) :
               IF k = p[1]
               THEN /\ treeViewState'[k].isExpanded = ~treeViewState[k].isExpanded
                    /\ [treeViewState'[k] EXCEPT !.isExpanded = ~@] = treeViewState[k]
               ELSE treeViewState'[k] = treeViewState[k]
          /\ IsPreorderOfExpanded(focusList', treeViewState')
          /\ focusedIndex' = focusedIndex
          /\ focusList'[focusedIndex' + 1] = p
          /\ selectedItemState' = selectedItemState
          /\ inputValue' = inputValue
          /\ items' = items
          /\ isDropdownVisible' = isDropdownVisible
          /\ fired' = <<>>]_vars

\* the return key has collapsed a focused team that is not the first entry
\* of the focus list: its channels have left the list and it is still focused
C21_Witness ==
  /\ lastOp.op = "key"
  /\ lastOp.key = "enter"
  /\ focusedIndex > 0
  /\ focusedIndex < Len(focusList)
  /\ LET node == NodeAt(treeViewState, focusList[focusedIndex + 1])
     IN /\ node.hasChannels
        /\ ~node.isExpanded
        /\ Len(node.channels) > 0

\* the expanded flags of the teams of a tree
ExpandedFlags(tree) == [k \in 1..Len(tree) |-> tree[k].isExpanded]

\* the step is a Down, Up, return or Tab key while the dropdown is not visible
NavigationKeyWhileClosed ==
  /\ lastOp'.op = "key"
  /\ lastOp'.key \in {"down", "up", "enter", "tab"}
  /\ ~isDropdownVisible

\* C22: while the dropdown is not visible, the keys Down, Up, return and Tab
\* leave the focus index, every expanded flag and the selection as they were.
C22_ClosedDropdownIgnoresKeys ==
  [][NavigationKeyWhileClosed =>
       /\ focusedIndex' = focusedIndex
       /\ ExpandedFlags(treeViewState') = ExpandedFlags(treeViewState)
       /\ PairOf(selectedItemState') = PairOf(selectedItemState)
       /\ selectedItemState'.set = selectedItemState.set]_vars

-----------------------------------------------------------------------------
(* Invariants of the focus *)

\* C23: in every reachable state the focus list is the flattening of the
\* current tree: it holds, in pre-order, exactly the nodes of the tree whose
\* ancestors are expanded.
C23_FocusListIsFlatten ==
  /\ focusList = generateFocusList(treeViewState)
  /\ IsPreorderOfExpanded(focusList, treeViewState)

\* a click has expanded a team and its channels have joined the focus list
C23_Witness ==
  /\ lastOp.op = "click"
  /\ lastOp.key = "team"
  /\ \E k \in 1..Len(treeViewState) :
       treeViewState[k].isExpanded /\ Len(treeViewState[k].channels) > 0
  /\ Len(focusList) > Len(treeViewState)

\* C24: in every reachable state the focus index is -1 or an index into the
\* focus list.
C24_FocusIndexInRange ==
  focusedIndex >= -1 /\ focusedIndex < Len(focusList)

====
